---- MODULE Spec2Model ----
(***************************************************************************)
(* Model of the ProjectLoW music engine (src/main.py, run_engine) and of   *)
(* the engine control of its host window (src/app.py, MusicApp).           *)
(*                                                                         *)
(* Four specifications share the variables and the operators:            *)
(*   Spec      the program: run_engine called from __main__ (standalone)   *)
(*             or from MusicApp.start_engine in a background thread (gui). *)
(*   FairSpec  Spec with weak fairness of the engine thread's steps.       *)
(*   LoadSpec  the start of run_engine over a wide set of sets folders.    *)
(*   UnitSpec  the closures of run_engine (start_set, the body of the main *)
(*             loop, the shutdown step) applied in any order.              *)
(***************************************************************************)
EXTENDS Integers, Sequences, FiniteSets, TLC

\* ------------------------------------------------------------------ bounds
\* file names of one folder are 1..MaxFiles (their order is the order of sort())
MaxFiles == 4
\* advance_state calls followed in one run of the engine
MaxAdvances == 7
\* start_engine clicks that start a thread
MaxStarts == 2
\* calls made by UnitSpec
MaxOps == 6

\* ------------------------------------------------------- program constants
CROSSFADE_MS == 250
SHUTDOWN_FADE_MS == 500
SHUTDOWN_SLEEP_MS == 500
POLL_SLEEP_MS == 20
WALLPAPER_EVERY == 3

\* --------------------------------------------------------------- the files
NoSet == "none"
FolderNames == {"A", "B", "C"}
Exts == {"wav", "OGG", "txt"}

\* str.lower() on the extensions of Exts
Lower(e) == IF e = "OGG" THEN "ogg" ELSE e

\* f.lower().endswith(".wav") or f.lower().endswith(".ogg")
IsAudio(f) == Lower(f.ext) = "wav" \/ Lower(f.ext) = "ogg"

\* a file of a folder: its name (a number standing for its place in the
\* lexicographic order), its extension, and whether pygame can load it
File(n, e, ok) == [name |-> n, ext |-> e, ok |-> ok]

\* the sound pygame.mixer.Sound(full_path) gives: the handle of one file
Sound(folder, f) == <<folder, f.name>>
NoSound == <<>>

\* files.sort(): os.listdir gives the names in any order, sort() orders them
RECURSIVE SortFiles(_)
SortFiles(S) ==
    IF S = {} THEN <<>>
    ELSE LET m == CHOOSE f \in S : \A g \in S : f.name <= g.name
         IN <<m>> \o SortFiles(S \ {m})

\* files[:3]
FirstThree(files) == SubSeq(files, 1, IF Len(files) < 3 THEN Len(files) ELSE 3)

\* the audio files of a folder, sorted (lines 69-76)
AudioFiles(entry) == SortFiles({f \in entry.files : IsAudio(f)})

\* an inner loop that goes on past a file that fails to load until it has
\* three sounds
LoadSoundsUntilThree(folder, files) ==
    LET Loads(f) == f.ok
        loaded == FirstThree(SelectSeq(files, Loads))
    IN [i \in 1..Len(loaded) |-> Sound(folder, loaded[i])]

\* the inner loop: each of the first three files is loaded, a file that fails
\* to load is skipped
LoadSounds(folder, files) ==
    LET Loads(f) == f.ok
        loaded == SelectSeq(FirstThree(files), Loads)
    IN [i \in 1..Len(loaded) |-> Sound(folder, loaded[i])]

\* whether the folder becomes a set: a directory, with audio files, whose
\* first three all loaded
AcceptSounds(sounds) == Len(sounds) = 3

IsSet(fsys, folder) ==
    LET entry == fsys.entries[folder]
    IN /\ entry.isDir
       /\ AudioFiles(entry) # <<>>
       /\ AcceptSounds(LoadSounds(folder, AudioFiles(entry)))

\* music_sets after the loading loop
LoadSets(fsys) ==
    [folder \in {d \in DOMAIN fsys.entries : IsSet(fsys, d)} |->
        LoadSounds(folder, AudioFiles(fsys.entries[folder]))]

\* ------------------------------------------------------------- the channel
\* pygame.mixer.Channel(0): busy while a sound plays; loops and fade_in are
\* those of the play that started it; fade is the time left of a fadeout in
\* progress (0: none)
IdleChannel == [busy |-> FALSE, sound |-> NoSound, loops |-> 0, fade_in |-> 0,
                fade |-> 0]

\* Channel.fadeout(ms): the sound stops after ms
Fadeout(ch, ms) == IF ch.busy THEN [ch EXCEPT !.fade = ms] ELSE ch

\* Channel.play(sound, loops, fade_ms): replaces what the channel plays
Play(ch, snd, loops, fade_ms) ==
    [busy |-> TRUE, sound |-> snd, loops |-> loops, fade_in |-> fade_ms, fade |-> 0]

\* the channel after ms of time.sleep
Sleep(ch, ms) ==
    IF ch.fade > 0 /\ ms >= ch.fade THEN IdleChannel
    ELSE IF ch.fade > 0 THEN [ch EXCEPT !.fade = @ - ms]
    ELSE ch

\* what a closure did, in order: the lines printed, the channel calls, on_step
Ev(kind, set, snd, n) == [kind |-> kind, set |-> set, sound |-> snd, n |-> n]

\* ------------------------------------------------------------------- state
VARIABLES
    fs,                \* the sets folder: [rootIsDir, entries: folder -> [isDir, files]]
    mode,              \* "standalone" (__main__), "gui" (MusicApp), "call"
                       \* (CallbackSpec), "unit" (UnitSpec)
    pc,                \* where run_engine is
    mixer,             \* pygame.mixer.get_init()
    music_sets,        \* set name -> its three sounds
    current_set_name,
    current_state,
    channel,           \* pygame.mixer.Channel(0)
    key_held,
    on_step,           \* the callback given: "None", "host" (_on_engine_step), "any"
    stop_event,        \* MusicApp.engine_stop_event.is_set()
    app,               \* MusicApp: engine_thread, status, press_count, ...
    obs                \* what an observer of the run has seen (history)

vars == <<fs, mode, pc, mixer, music_sets, current_set_name, current_state,
          channel, key_held, on_step, stop_event, app, obs>>

\* the engine's lifecycle (spec 4.5) read off pc
Running == pc \in {"Check", "Poll"}
Stopping == pc \in {"Finally", "FinallySleep"}
Stopped == pc = "Stopped"

\* what a call of on_step does: it returns ("none") or raises an exception
\* of a class derived from Exception, KeyboardInterrupt, or another class
\* derived from BaseException only (SystemExit, GeneratorExit); the str() of
\* an Exception either returns or raises in its turn: an Exception
\* ("UnprintableException"), KeyboardInterrupt ("UnprintableInterrupt") or
\* another BaseException ("UnprintableExit")
Unprintable == {"UnprintableException", "UnprintableInterrupt", "UnprintableExit"}

RaiseKinds == {"none", "Exception", "KeyboardInterrupt", "BaseException"}
                 \cup Unprintable

\* the exception that str(e) raises at line 169, for an e of these kinds
StrRaises(raises) ==
    CASE raises = "UnprintableException" -> "Exception"
      [] raises = "UnprintableInterrupt" -> "KeyboardInterrupt"
      [] raises = "UnprintableExit" -> "BaseException"

\* the state the closures of run_engine share, as one value; raised is
\* the exception that leaves the closure ("none": it returns)
Machine == [set |-> current_set_name, state |-> current_state,
            chan |-> channel, ev |-> <<>>, raised |-> "none"]

\* --------------------------------------------------- the closures (pure)
\* play_loop_sound that fades out without asking get_busy()
PlayLoopSoundAlwaysFades(m, snd) ==
    [m EXCEPT !.chan = Play(Fadeout(m.chan, CROSSFADE_MS), snd, -1, CROSSFADE_MS),
              !.ev = @ \o <<Ev("fadeout", m.set, m.chan.sound, CROSSFADE_MS),
                            Ev("play", m.set, snd, CROSSFADE_MS)>>]

\* play_loop_sound
PlayLoopSound(m, snd) ==
    LET busy == m.chan.busy
        faded == IF busy THEN Fadeout(m.chan, CROSSFADE_MS) ELSE m.chan
        out == IF busy THEN <<Ev("fadeout", m.set, m.chan.sound, CROSSFADE_MS)>>
               ELSE <<>>
    IN [m EXCEPT !.chan = Play(faded, snd, -1, CROSSFADE_MS),
                 !.ev = @ \o out \o <<Ev("play", m.set, snd, CROSSFADE_MS)>>]

\* play_current_state that plays the first track whatever the state is
PlayCurrentStateFirstTrack(m, sets) ==
    IF m.set = NoSet THEN m
    ELSE PlayLoopSound(
           [m EXCEPT !.ev = @ \o <<Ev("print_playing", m.set, NoSound, m.state)>>],
           sets[m.set][1])

\* play_current_state
PlayCurrentState(m, sets) ==
    IF m.set = NoSet THEN m
    ELSE LET sounds == sets[m.set]
             index == m.state - 1
         IN IF 0 <= index /\ index < Len(sounds)
            THEN PlayLoopSound(
                   [m EXCEPT !.ev = @ \o <<Ev("print_playing", m.set, NoSound, m.state)>>],
                   sounds[index + 1])
            ELSE [m EXCEPT !.ev = @ \o <<Ev("print_invalid", m.set, NoSound, m.state)>>]

\* choose_random_set that forgets to remove the excluded name
DrawPoolKeepsExcluded(sets, exclude) == DOMAIN sets

\* the names choose_random_set draws from
DrawPool(sets, exclude) ==
    IF exclude \in DOMAIN sets /\ Cardinality(DOMAIN sets) > 1
    THEN DOMAIN sets \ {exclude}
    ELSE DOMAIN sets

\* start_set that forgets current_state = 1
StartSetKeepsState(m, sets, name) ==
    PlayCurrentState(
        [m EXCEPT !.set = name,
                  !.ev = @ \o <<Ev("assign_set", name, NoSound, m.state),
                                Ev("print_switched", name, NoSound, 1)>>],
        sets)

\* start_set that forgets current_set_name = name
StartSetForgetsName(m, sets, name) ==
    PlayCurrentState(
        [m EXCEPT !.state = 1,
                  !.ev = @ \o <<Ev("assign_state", m.set, NoSound, 1),
                                Ev("print_switched", name, NoSound, 1)>>],
        sets)

\* start_set: the two assignments, the line printed, play_current_state
StartSet(m, sets, name) ==
    PlayCurrentState(
        [m EXCEPT !.set = name, !.state = 1,
                  !.ev = @ \o <<Ev("assign_set", name, NoSound, m.state),
                                Ev("assign_state", name, NoSound, 1),
                                Ev("print_switched", name, NoSound, 1)>>],
        sets)

\* the on_step block at the end of advance_state: given is whether on_step
\* is not None, raises what this call of it does (the "raise" event); line
\* 168 is `except Exception`: an exception of a class derived from Exception
\* is caught and printed, any other leaves advance_state.
\* Line 167: on_step is called
NotifyCall(m) ==
    [m EXCEPT !.ev = @ \o <<Ev("on_step", m.set, m.chan.sound, m.state)>>]

\* lines 168-169: how the call of on_step ends. print(..., e) writes
\* "on_step callback error:" and then str(e): if that raises, the exception
\* it raises, of whatever class, leaves the handler and advance_state
NotifyEnd(called, raises) ==
    CASE raises = "none" -> called
      [] raises = "Exception" ->
           [called EXCEPT !.ev = @ \o <<Ev("raise", called.set, NoSound, called.state),
                                        Ev("print_callback_error", called.set,
                                           NoSound, called.state)>>]
      [] raises \in Unprintable ->
           [called EXCEPT !.ev = @ \o <<Ev("raise", called.set, NoSound, called.state),
                                        Ev("print_callback_error_begun", called.set,
                                           NoSound, called.state)>>,
                          !.raised = StrRaises(raises)]
      [] OTHER ->
           [called EXCEPT !.ev = @ \o <<Ev("raise", called.set, NoSound, called.state)>>,
                          !.raised = raises]

Notify(m, given, raises) ==
    IF ~given THEN m ELSE NotifyEnd(NotifyCall(m), raises)

\* advance_state whose guard on "no set" skips the transition only, and
\* falls through to the on_step block
AdvanceStateNotifiesNoop(m, sets, draw, given, raises) ==
    IF m.set = NoSet THEN Notify(m, given, raises)
    ELSE Notify(
           IF m.state = 3 THEN StartSet(m, sets, draw)
           ELSE PlayCurrentState(
                  [m EXCEPT !.state = @ + 1,
                            !.ev = @ \o <<Ev("assign_state", m.set, NoSound,
                                             m.state + 1)>>],
                  sets),
           given, raises)

\* advance_state that returns from state 3 when the set drawn is the set
\* that is playing
AdvanceStateSkipsSameSet(m, sets, draw, given, raises) ==
    IF m.set = NoSet \/ (m.state = 3 /\ draw = m.set) THEN m
    ELSE LET moved ==
               IF m.state = 3
               THEN StartSet(
                      [m EXCEPT !.ev = @ \o <<Ev("print_finished", draw, NoSound, 3)>>],
                      sets, draw)
               ELSE PlayCurrentState(
                      [m EXCEPT !.state = @ + 1,
                                !.ev = @ \o <<Ev("assign_state", m.set, NoSound,
                                                 m.state + 1),
                                              Ev(IF m.state = 1 THEN "print_state2"
                                                 ELSE "print_state3",
                                                 m.set, NoSound, m.state + 1)>>],
                      sets)
         IN Notify(moved, given, raises)

\* advance_state that counts on from state 3 instead of starting a new set
AdvanceStateCountsOn(m, sets, draw, given, raises) ==
    IF m.set = NoSet THEN m
    ELSE Notify(IF m.state \in 1..3
                THEN PlayCurrentState(
                       [m EXCEPT !.state = @ + 1,
                                 !.ev = @ \o <<Ev("assign_state", m.set, NoSound,
                                                  m.state + 1)>>],
                       sets)
                ELSE PlayCurrentState(
                       [m EXCEPT !.state = 1,
                                 !.ev = @ \o <<Ev("else_reset", m.set, NoSound, 1),
                                               Ev("assign_state", m.set, NoSound, 1)>>],
                       sets),
                given, raises)

\* advance_state that calls on_step first and makes the transition after
AdvanceStateNotifiesFirst(m, sets, draw, given, raises) ==
    IF m.set = NoSet THEN m
    ELSE LET told == Notify(m, given, raises)
         IN CASE told.state = 1 ->
                   PlayCurrentState(
                     [told EXCEPT !.state = 2,
                                  !.ev = @ \o <<Ev("assign_state", m.set, NoSound, 2),
                                                Ev("print_state2", m.set, NoSound, 2)>>],
                     sets)
              [] told.state = 2 ->
                   PlayCurrentState(
                     [told EXCEPT !.state = 3,
                                  !.ev = @ \o <<Ev("assign_state", m.set, NoSound, 3),
                                                Ev("print_state3", m.set, NoSound, 3)>>],
                     sets)
              [] OTHER ->
                   StartSet(
                     [told EXCEPT !.ev = @ \o <<Ev("print_finished", draw, NoSound, 3)>>],
                     sets, draw)

\* advance_state for which state 3 is the end: no new set is started
AdvanceStateEndsAtThree(m, sets, draw, given, raises) ==
    IF m.set = NoSet \/ m.state = 3 THEN m
    ELSE Notify(
           PlayCurrentState(
             [m EXCEPT !.state = @ + 1,
                       !.ev = @ \o <<Ev("assign_state", m.set, NoSound, m.state + 1),
                                     Ev(IF m.state = 1 THEN "print_state2"
                                        ELSE "print_state3", m.set, NoSound, m.state + 1)>>],
             sets),
           given, raises)

\* advance_state; draw is what random.choice gives if it is asked
AdvanceState(m, sets, draw, given, raises) ==
    IF m.set = NoSet THEN m
    ELSE LET moved ==
               CASE m.state = 1 ->
                      PlayCurrentState(
                        [m EXCEPT !.state = 2,
                                  !.ev = @ \o <<Ev("assign_state", m.set, NoSound, 2),
                                                Ev("print_state2", m.set, NoSound, 2)>>],
                        sets)
                 [] m.state = 2 ->
                      PlayCurrentState(
                        [m EXCEPT !.state = 3,
                                  !.ev = @ \o <<Ev("assign_state", m.set, NoSound, 3),
                                                Ev("print_state3", m.set, NoSound, 3)>>],
                        sets)
                 [] m.state = 3 ->
                      StartSet(
                        [m EXCEPT !.ev = @ \o <<Ev("print_finished", draw, NoSound, 3)>>],
                        sets, draw)
                 [] OTHER ->
                      PlayCurrentState(
                        [m EXCEPT !.state = 1,
                                  !.ev = @ \o <<Ev("else_reset", m.set, NoSound, 1),
                                                Ev("assign_state", m.set, NoSound, 1)>>],
                        sets)
         IN Notify(moved, given, raises)

\* the draws advance_state can get from choose_random_set(exclude=current)
Draws(m, sets) ==
    IF m.set # NoSet /\ m.state = 3 THEN DrawPool(sets, m.set) ELSE {NoSet}

\* the finally block, line 203: current_channel.fadeout(500)
ShutdownFade(m) ==
    [m EXCEPT !.chan = Fadeout(m.chan, SHUTDOWN_FADE_MS),
              !.ev = @ \o <<Ev("fadeout", m.set, m.chan.sound, SHUTDOWN_FADE_MS)>>]

\* a finally block that does not wait for the fadeout it started
ShutdownSleepNoWait(m) == m

\* the finally block, line 204: time.sleep(0.5)
ShutdownSleep(m) ==
    [m EXCEPT !.chan = Sleep(m.chan, SHUTDOWN_SLEEP_MS),
              !.ev = @ \o <<Ev("sleep", m.set, NoSound, SHUTDOWN_SLEEP_MS)>>]

\* the finally block, line 205: print("Music engine stopped.")
ShutdownPrint(m) ==
    [m EXCEPT !.ev = @ \o <<Ev("print_stopped", m.set, NoSound, 0)>>]

\* _on_engine_step that tests the count before it adds one
OnEngineStepTestsFirst(a) ==
    [a EXCEPT !.press_count = @ + 1,
              !.after_calls = IF a.press_count % WALLPAPER_EVERY = 0 THEN @ + 1 ELSE @]

\* MusicApp._on_engine_step
OnEngineStep(a) ==
    LET n == a.press_count + 1
    IN [a EXCEPT !.press_count = n,
                 !.after_calls = IF n % WALLPAPER_EVERY = 0 THEN @ + 1 ELSE @]

\* ------------------------------------------- a closure left part-way
\* what one statement of a closure, recorded as event e, does to the
\* machine: an assignment, a channel call, a sleep; a line printed and a
\* call of on_step change nothing of it
Effect(x, e) ==
    CASE e.kind = "assign_set" -> [x EXCEPT !.set = e.set]
      [] e.kind = "assign_state" -> [x EXCEPT !.state = e.n]
      [] e.kind = "fadeout" -> [x EXCEPT !.chan = Fadeout(@, e.n)]
      [] e.kind = "play" -> [x EXCEPT !.chan = Play(@, e.sound, -1, e.n)]
      [] e.kind = "sleep" -> [x EXCEPT !.chan = Sleep(@, e.n)]
      [] OTHER -> x

\* the machine after the first k statements of the ones recorded in ev
RECURSIVE After(_, _, _)
After(x, ev, k) ==
    IF k = 0 THEN x ELSE Effect(After(x, ev, k - 1), ev[k])

\* a KeyboardInterrupt arrives in a closure that would take m to r, after
\* k of its statements: what was done stays done, the rest is not run
Cut(m, r, k) ==
    [After(m, r.ev, k) EXCEPT !.ev = SubSeq(r.ev, 1, k),
                              !.raised = "KeyboardInterrupt"]

\* the points of a closure at which the KeyboardInterrupt can arrive
CutPoints(m, r) == Len(m.ev)..Len(r.ev)

\* ------------------------------------------------------------ the history
Count(ev, kind) ==
    LET Is(e) == e.kind = kind
    IN Len(SelectSeq(ev, Is))

InitObs ==
    [trace |-> <<>>,          \* (set, state) after each start_set / advance
     nAdvance |-> 0,          \* advance_state calls
     nChanged |-> 0,          \* of them, those that changed (set, state)
     nOnStep |-> 0,           \* on_step invocations
     nSwitched |-> 0,         \* "=== Switched to set" lines (line 135)
     nPicked |-> 0,           \* "Finished set ..., picking new set" lines (line 157)
     entered |-> FALSE,       \* the run reached Running
     outcome |-> "pending",   \* what the caller of run_engine got
     diag |-> "none",         \* the startup error printed
     interrupted |-> FALSE,   \* a KeyboardInterrupt arrived
     ctrlc |-> FALSE,         \* it was a Ctrl+C (not one the callback raised)
     cut |-> FALSE,           \* it arrived inside start_set or advance_state
     nCut |-> 0,              \* advance_state calls it ended
     thrown |-> "none",       \* what the last call of on_step raised
     escaped |-> "none",      \* the exception that left the last advance_state
     pending |-> "none",      \* the exception in flight while the finally block runs
     nRaised |-> 0,           \* on_step calls that raised
     nAfterStop |-> 0,        \* advance_state calls made with stop_event set (up to 2)
     polledAfterStop |-> 0,   \* key samples taken with stop_event set (up to 2)
     op |-> "none",           \* the last closure run, its events, the channel before
     ev |-> <<>>,
     busyBefore |-> FALSE,
     soundBefore |-> NoSound,
     before |-> <<NoSet, 1>>, \* (set, state) before the last closure
     prevSample |-> "none",   \* the key sample before the last one
     sample |-> "none",       \* the last key sample
     triggered |-> FALSE,     \* the last sample called advance_state
     nRises |-> 0,            \* samples "pressed" that follow no "pressed" sample
     sdRuns |-> 0,            \* shutdown steps since the last play
     sdFades |-> 0,           \* fadeouts they issued
     sdSlept |-> 0,           \* ms the last shutdown step slept
     nOps |-> 0]

\* the history after closure `op` took the machine from m to r
Seen(o, op, m, r) ==
    LET played == Count(r.ev, "play") > 0
        called == op = "advance"
        changed == <<m.set, m.state>> # <<r.set, r.state>>
    IN [o EXCEPT
          !.op = op, !.ev = r.ev, !.busyBefore = m.chan.busy,
          !.soundBefore = m.chan.sound, !.before = <<m.set, m.state>>,
          !.trace = IF op = "start_set" \/ (called /\ changed)
                    THEN Append(@, <<r.set, r.state>>) ELSE @,
          !.nAdvance = IF called THEN @ + 1 ELSE @,
          !.nChanged = IF called /\ changed THEN @ + 1 ELSE @,
          !.nOnStep = @ + Count(r.ev, "on_step"),
          !.nRaised = @ + Count(r.ev, "raise"),
          !.escaped = r.raised,
          !.nAfterStop = IF called /\ stop_event /\ @ < 2 THEN @ + 1 ELSE @,
          !.nSwitched = @ + Count(r.ev, "print_switched"),
          !.nPicked = @ + Count(r.ev, "print_finished"),
          !.sdRuns = IF op = "shutdown" THEN @ + 1 ELSE IF played THEN 0 ELSE @,
          !.sdFades = IF op = "shutdown" THEN @ + Count(r.ev, "fadeout")
                      ELSE IF played THEN 0 ELSE @,
          !.sdSlept = IF op = "shutdown"
                      THEN (IF Count(r.ev, "sleep") > 0 THEN SHUTDOWN_SLEEP_MS ELSE 0)
                      ELSE @,
          !.nOps = IF mode = "unit" THEN @ + 1 ELSE @]

\* the closure's result written back to the variables it shares
Store(r) ==
    /\ current_set_name' = r.set
    /\ current_state' = r.state
    /\ channel' = r.chan

\* ------------------------------------------------------------ the main loop
\* lines 188-193: whether this sample calls advance_state, and the latch after
CallsAdvance(pressed, held) == pressed /\ ~held

\* a latch that a released sample does not clear
KeyHeldNeverCleared(pressed, held) == pressed \/ held

KeyHeldAfter(pressed, held) ==
    IF pressed THEN (IF ~held THEN TRUE ELSE held) ELSE FALSE

\* what a call of on_step can do before it returns: any callback may raise
\* anything; _on_engine_step raises only in self.after (a RuntimeError or
\* TclError of tkinter), where it waits first (AfterFails)
MayRaise ==
    CASE on_step = "None" -> {"none"}
      [] on_step = "host" -> {"none"}
      [] OTHER -> RaiseKinds

\* app.py line 287: called from the engine thread, self.after hands the
\* call to the Tk main thread and waits until its event loop has served it;
\* _on_engine_step gets there on every third press
WaitsInAfter(call, m) ==
    /\ mode = "gui"
    /\ on_step = "host"
    /\ call
    /\ m.set # NoSet
    /\ OnEngineStep(app).after_calls # app.after_calls

\* one pass of the loop body after the stop check: sample the key, advance
\* on a rising edge, sleep
PollStep(next) ==
    \E pressed \in BOOLEAN :
      LET call == CallsAdvance(pressed, key_held)
          m == Machine
      IN /\ call => obs.nAdvance < MaxAdvances
         /\ \E draw \in (IF call THEN Draws(m, music_sets) ELSE {NoSet}),
               raises \in (IF call /\ m.set # NoSet THEN MayRaise ELSE {"none"}) :
              LET r == IF call
                       THEN AdvanceState(m, music_sets, draw, on_step # "None", raises)
                       ELSE m
                  seen == IF call THEN Seen(obs, "advance", m, r)
                          ELSE [obs EXCEPT !.nOps = IF mode = "unit" THEN @ + 1 ELSE @]
                  wait == WaitsInAfter(call, m)
              IN /\ current_set_name' = r.set
                 /\ current_state' = r.state
                 \* an exception out of advance_state skips lines 191-195;
                 \* an engine thread that waits in self.after has not got
                 \* to them yet
                 /\ channel' = IF r.raised # "none" \/ wait THEN r.chan
                               ELSE Sleep(r.chan, POLL_SLEEP_MS)
                 /\ key_held' = IF r.raised # "none" \/ wait THEN key_held
                                ELSE KeyHeldAfter(pressed, key_held)
                 /\ pc' = IF wait THEN pc
                          ELSE IF r.raised # "none" /\ next = "Check" THEN "Finally"
                          ELSE next
                 /\ app' = IF on_step = "host" /\ Count(r.ev, "on_step") > 0
                           THEN [OnEngineStep(app) EXCEPT
                                   !.after = IF wait THEN "waiting" ELSE @]
                           ELSE app
                 /\ obs' = [seen EXCEPT
                              !.prevSample = obs.sample,
                              !.sample = IF pressed THEN "pressed" ELSE "released",
                              !.triggered = call,
                              !.thrown = raises,
                              \* line 197 takes a KeyboardInterrupt, any other
                              \* exception goes on through the finally block
                              !.interrupted = IF next = "Check"
                                                 /\ r.raised = "KeyboardInterrupt"
                                              THEN TRUE ELSE @,
                              !.pending = IF next = "Check"
                                             /\ r.raised \notin {"none",
                                                                 "KeyboardInterrupt"}
                                          THEN r.raised ELSE @,
                              !.polledAfterStop = IF stop_event /\ @ < 2
                                                  THEN @ + 1 ELSE @,
                              !.nRises = IF pressed /\ obs.sample # "pressed"
                                         THEN @ + 1 ELSE @]
         /\ UNCHANGED <<fs, mode, mixer, music_sets, on_step, stop_event>>

\* the end of the finally block: the line is printed and run_engine is left,
\* by return or by the exception in flight
ShutdownDone(m, r, next) ==
    /\ Store(r)
    /\ obs' = [Seen(obs, "shutdown", m, r) EXCEPT
                 !.outcome = IF next # "Stopped" THEN @
                             ELSE IF obs.pending # "none" THEN "raised"
                             ELSE "returned",
                 !.escaped = obs.escaped]
    /\ pc' = next
    /\ UNCHANGED <<fs, mode, mixer, music_sets, key_held, on_step, stop_event, app>>

\* lines 202-203, and 205 if the channel is not playing: the finally block
\* up to its sleep
ShutdownStep(wait, next) ==
    LET m == Machine
    IN IF m.chan.busy
       THEN LET r == ShutdownFade(m)
            IN /\ Store(r)
               /\ obs' = [obs EXCEPT !.op = "shutdown_wait", !.ev = r.ev]
               /\ pc' = wait
               /\ UNCHANGED <<fs, mode, mixer, music_sets, key_held, on_step,
                              stop_event, app>>
       ELSE ShutdownDone(m, ShutdownPrint(m), next)

\* lines 204-205: the sleep of the finally block is over
ShutdownWake(next) ==
    LET m == [Machine EXCEPT !.ev = obs.ev]
    IN ShutdownDone(m, ShutdownPrint(ShutdownSleep(m)), next)

\* start_set(name) called on the machine as it is
StartSetStep(name, next) ==
    LET m == Machine
        r == StartSet(m, music_sets, name)
    IN /\ Store(r)
       /\ obs' = Seen(obs, "start_set", m, r)
       /\ pc' = next
       /\ UNCHANGED <<fs, mode, mixer, music_sets, key_held, on_step, stop_event, app>>

\* ------------------------------------------------------------- run_engine
\* python main.py: __main__ calls run_engine(trigger_key=key)
MainStart ==
    /\ mode = "standalone"
    /\ pc = "NotStarted"
    /\ pc' = "MixerInit"
    /\ UNCHANGED <<fs, mixer, mode, music_sets, current_set_name, current_state,
                   channel, key_held, on_step, stop_event, app, obs>>

\* lines 49-52: the mixer is initialised unless it already is
MixerInit ==
    /\ pc = "MixerInit"
    /\ mixer' = (IF ~mixer THEN TRUE ELSE mixer)
    /\ pc' = "Load"
    /\ UNCHANGED <<fs, mode, music_sets, current_set_name, current_state,
                   channel, key_held, on_step, stop_event, app, obs>>

\* lines 57-92: music_sets when the loading loop is over
LoadedSets == IF fs.rootIsDir THEN LoadSets(fs) ELSE <<>>

\* lines 60-62, 94-96: the diagnostic printed before run_engine returns
LoadFailure(sets) ==
    CASE ~fs.rootIsDir -> "sets_folder_not_found"
      [] DOMAIN sets = {} -> "no_valid_sets"
      [] OTHER -> "none"

\* lines 57-98: the sets are loaded; run_engine returns if the sets folder
\* is no directory or no set was accepted
LoadStep ==
    /\ pc = "Load"
    /\ LET sets == LoadedSets
           failed == LoadFailure(sets)
       IN /\ music_sets' = sets
          /\ pc' = IF failed = "none" THEN "Start" ELSE "Stopped"
          /\ obs' = [obs EXCEPT !.diag = failed,
                                !.outcome = IF failed = "none" THEN @ ELSE "returned"]
    /\ UNCHANGED <<fs, mode, mixer, current_set_name, current_state, channel,
                   key_held, on_step, stop_event, app>>

\* lines 100-180: the state is reset, start_set(choose_random_set()) runs,
\* key_held = False
StartStep ==
    /\ pc = "Start"
    /\ \E name \in DrawPool(music_sets, NoSet) :
         LET m == [set |-> NoSet, state |-> 1, chan |-> channel, ev |-> <<>>,
                   raised |-> "none"]
             r == StartSet(m, music_sets, name)
         IN /\ Store(r)
            /\ obs' = [Seen(obs, "start_set", m, r) EXCEPT !.entered = TRUE]
    /\ key_held' = FALSE
    /\ pc' = "Check"
    /\ UNCHANGED <<fs, mode, mixer, music_sets, on_step, stop_event, app>>

\* a loop that never looks at stop_event
LoopCheckIgnoresStop ==
    /\ pc = "Check"
    /\ pc' = "Poll"
    /\ UNCHANGED <<fs, mode, mixer, music_sets, current_set_name, current_state,
                   channel, key_held, on_step, stop_event, app, obs>>

\* lines 184-186: the top of the loop; standalone, stop_event is None
LoopCheck ==
    /\ pc = "Check"
    /\ pc' = IF mode = "gui" /\ stop_event THEN "Finally" ELSE "Poll"
    /\ UNCHANGED <<fs, mode, mixer, music_sets, current_set_name, current_state,
                   channel, key_held, on_step, stop_event, app, obs>>

\* lines 188-195; on a press that makes _on_engine_step call self.after,
\* lines 188-190 up to that call
LoopBody ==
    /\ pc = "Poll"
    /\ app.after = "none"
    /\ PollStep("Check")

\* the rest of the pass once on_step has ended: key_held = True (line 191)
\* and time.sleep(0.02) (line 195)
LoopBodyRest ==
    /\ key_held' = KeyHeldAfter(TRUE, key_held)
    /\ channel' = Sleep(channel, POLL_SLEEP_MS)
    /\ pc' = "Check"
    /\ UNCHANGED <<fs, mode, mixer, music_sets, current_set_name, current_state,
                   on_step, stop_event>>

\* self.after has returned: on_step returns, advance_state returns, the
\* pass goes on
LoopBodyResume ==
    /\ pc = "Poll"
    /\ app.after = "served"
    /\ LoopBodyRest
    /\ app' = [app EXCEPT !.after = "none"]
    /\ UNCHANGED obs

\* self.after raises instead (RuntimeError, TclError: a main loop that is
\* not running): line 168 catches it, the pass goes on
AfterFails ==
    /\ pc = "Poll"
    /\ app.after = "waiting"
    /\ LoopBodyRest
    /\ app' = [app EXCEPT !.after = "none"]
    /\ LET r == NotifyEnd([Machine EXCEPT !.ev = obs.ev], "Exception")
       IN obs' = [obs EXCEPT !.ev = r.ev, !.nRaised = @ + 1, !.thrown = "Exception"]

\* Ctrl+C reaches the main thread only: the standalone run and a run_engine
\* called by another program, at any statement of it
OnMainThread == mode \in {"standalone", "call"}

\* lines 48-98 are outside the try of line 182: a KeyboardInterrupt in the
\* mixer init or in the loading leaves run_engine, with the mixer
\* initialised or not, with the sets stored so far (os.listdir gives the
\* folders in any order), with the diagnostic printed or not
InterruptStartup ==
    /\ OnMainThread
    /\ \/ /\ pc = "MixerInit"
          /\ \E done \in BOOLEAN : mixer' = (mixer \/ done)
          /\ music_sets' = music_sets
          /\ obs' = [obs EXCEPT !.interrupted = TRUE, !.ctrlc = TRUE,
                                !.outcome = "raised"]
       \/ /\ pc = "Load"
          /\ mixer' = mixer
          /\ LET sets == LoadedSets
             IN \E S \in SUBSET DOMAIN sets, d \in {"none", LoadFailure(sets)} :
                  /\ music_sets' = (IF S = {} THEN <<>> ELSE [n \in S |-> sets[n]])
                  /\ obs' = [obs EXCEPT !.interrupted = TRUE, !.ctrlc = TRUE,
                                        !.outcome = "raised", !.diag = d]
    /\ pc' = "Stopped"
    /\ UNCHANGED <<fs, mode, current_set_name, current_state,
                   channel, key_held, on_step, stop_event, app>>

\* lines 100-180, outside the try as well: a KeyboardInterrupt in
\* start_set(choose_random_set()) or after it leaves run_engine with what
\* start_set has done so far
InterruptStartSet ==
    /\ OnMainThread
    /\ pc = "Start"
    /\ \E name \in DrawPool(music_sets, NoSet) :
         LET m == [set |-> NoSet, state |-> 1, chan |-> channel, ev |-> <<>>,
                   raised |-> "none"]
             r == StartSet(m, music_sets, name)
         IN \E k \in CutPoints(m, r) :
              LET x == Cut(m, r, k)
                  seen == IF k = Len(r.ev) THEN Seen(obs, "start_set", m, r)
                          ELSE [obs EXCEPT !.op = "start_set_cut", !.ev = x.ev,
                                           !.cut = TRUE,
                                           !.busyBefore = m.chan.busy,
                                           !.soundBefore = m.chan.sound,
                                           !.before = <<m.set, m.state>>,
                                           !.nSwitched = @ + Count(x.ev, "print_switched")]
              IN /\ Store(x)
                 /\ obs' = [seen EXCEPT !.interrupted = TRUE, !.ctrlc = TRUE,
                                        !.outcome = "raised"]
    /\ pc' = "Stopped"
    /\ UNCHANGED <<fs, mode, mixer, music_sets, key_held, on_step, stop_event, app>>

\* lines 182-198: a KeyboardInterrupt between the statements of the loop, in
\* keyboard.is_pressed or in time.sleep(0.02) is taken by line 197: before
\* the key is sampled, or in a pass that does not call advance_state, after
\* the sample and before or after the latch is written (lines 193, 195)
InterruptLoop ==
    /\ OnMainThread
    /\ Running
    /\ \/ /\ key_held' = key_held
          /\ obs' = [obs EXCEPT !.interrupted = TRUE, !.ctrlc = TRUE]
       \/ /\ pc = "Poll"
          /\ \E pressed \in BOOLEAN :
               /\ ~CallsAdvance(pressed, key_held)
               /\ key_held' \in {key_held, KeyHeldAfter(pressed, key_held)}
               /\ obs' = [obs EXCEPT
                            !.interrupted = TRUE, !.ctrlc = TRUE,
                            !.prevSample = obs.sample,
                            !.sample = IF pressed THEN "pressed" ELSE "released",
                            !.triggered = FALSE,
                            !.nRises = IF pressed /\ obs.sample # "pressed"
                                       THEN @ + 1 ELSE @]
    /\ pc' = "Finally"
    /\ UNCHANGED <<fs, mode, mixer, music_sets, current_set_name, current_state,
                   channel, on_step, stop_event, app>>

\* lines 188-195: the key is pressed, advance_state is called and a
\* KeyboardInterrupt arrives in it, or after it, before or after
\* key_held = True; line 197 takes it. The callback, if one is given, has
\* returned or raised an Exception by then, or has not been reached
InterruptAdvance ==
    /\ OnMainThread
    /\ pc = "Poll"
    /\ CallsAdvance(TRUE, key_held)
    /\ obs.nAdvance < MaxAdvances
    /\ LET m == Machine
       IN \E draw \in Draws(m, music_sets),
             raises \in MayRaise \cap ({"none", "Exception"} \cup Unprintable) :
            LET r == AdvanceState(m, music_sets, draw, on_step # "None", raises)
            IN \E k \in CutPoints(m, r) :
                 LET x == Cut(m, r, k)
                     seen == IF k = Len(r.ev) THEN Seen(obs, "advance", m, r)
                             ELSE [obs EXCEPT !.op = "advance_cut", !.ev = x.ev,
                                              !.cut = TRUE, !.nCut = @ + 1,
                                              !.busyBefore = m.chan.busy,
                                              !.soundBefore = m.chan.sound,
                                              !.before = <<m.set, m.state>>,
                                              !.nOnStep = @ + Count(x.ev, "on_step"),
                                              !.nRaised = @ + Count(x.ev, "raise"),
                                              !.nSwitched = @ + Count(x.ev, "print_switched"),
                                              !.nPicked = @ + Count(x.ev, "print_finished")]
                 IN /\ Store(x)
                    /\ key_held' \in (IF k = Len(r.ev) /\ r.raised = "none"
                                      THEN {key_held, KeyHeldAfter(TRUE, key_held)}
                                      ELSE {key_held})
                    /\ obs' = [seen EXCEPT
                                 !.interrupted = TRUE, !.ctrlc = TRUE,
                                 !.thrown = IF Count(x.ev, "raise") > 0
                                            THEN raises ELSE "none",
                                 !.prevSample = obs.sample,
                                 !.sample = "pressed",
                                 !.triggered = TRUE,
                                 !.nRises = IF obs.sample # "pressed" THEN @ + 1 ELSE @]
    /\ pc' = "Finally"
    /\ UNCHANGED <<fs, mode, mixer, music_sets, on_step, stop_event, app>>

\* lines 200-205: a KeyboardInterrupt in the finally block (a second one, or
\* the first if the loop was left by an exception of the callback) leaves
\* run_engine with what the block has done so far
InterruptFinally ==
    /\ OnMainThread
    /\ pc \in {"Finally", "FinallySleep"}
    /\ LET m == IF pc = "Finally" THEN Machine ELSE [Machine EXCEPT !.ev = obs.ev]
           r == IF pc = "FinallySleep" THEN ShutdownPrint(ShutdownSleep(m))
                ELSE IF m.chan.busy THEN m ELSE ShutdownPrint(m)
       IN \E k \in CutPoints(m, r) :
            LET x == Cut(m, r, k)
            IN /\ Store(x)
               /\ obs' = [obs EXCEPT !.op = "shutdown_cut", !.ev = x.ev,
                                     !.interrupted = TRUE, !.ctrlc = TRUE,
                                     !.outcome = "raised"]
    /\ pc' = "Stopped"
    /\ UNCHANGED <<fs, mode, mixer, music_sets, key_held, on_step, stop_event, app>>

Interrupt ==
    InterruptStartup \/ InterruptStartSet \/ InterruptLoop \/ InterruptAdvance
    \/ InterruptFinally

\* lines 200-203 (and 205): the finally block starts the fadeout
Finally ==
    /\ pc = "Finally"
    /\ ShutdownStep("FinallySleep", "Stopped")

\* lines 204-205: time.sleep(0.5) returns
FinallyWake ==
    /\ pc = "FinallySleep"
    /\ ShutdownWake("Stopped")

\* the steps run_engine takes by itself, whoever called it
RunEngineStep ==
    MixerInit \/ LoadStep \/ StartStep \/ LoopCheck \/ LoopBody \/ Finally
    \/ FinallyWake

\* app.py lines 263-268: run_engine is the target of the engine thread;
\* when it has returned the thread is still alive, until the thread itself
\* has ended
ThreadEnd ==
    /\ mode = "gui"
    /\ pc = "Stopped"
    /\ app.alive
    /\ app' = [app EXCEPT !.alive = FALSE, !.ended = @ + 1]
    /\ UNCHANGED <<fs, mode, pc, mixer, music_sets, current_set_name,
                   current_state, channel, key_held, on_step, stop_event, obs>>

\* and, in the host, the step it takes when the main thread has served it,
\* and the end of its thread
EngineStep == RunEngineStep \/ LoopBodyResume \/ ThreadEnd

\* ---------------------------------------------------------------- MusicApp
\* engine_thread is not None and engine_thread.is_alive(): true from
\* Thread.start() until the thread has ended, which is after run_engine has
\* returned
IsAlive == app.engine_thread = "Thread" /\ app.alive

\* alive: engine_thread.is_alive(); starts: threads started; ended: threads
\* that have ended;
\* refused: the last start_engine click returned at line 254; main: the
\* line of a handler the Tk main thread is at ("idle": in no handler, in its
\* event loop); after: the self.after call of the engine thread ("waiting":
\* handed to the main thread, "served": the event loop has run it)
InitApp ==
    [engine_thread |-> "None", status |-> "idle", press_count |-> 0,
     after_calls |-> 0, circle_running |-> FALSE, starts |-> 0, ended |-> 0,
     refused |-> FALSE, main |-> "idle", after |-> "none", alive |-> FALSE]

\* start_engine without the is_alive() test: it starts a thread at every click
StartEngineAlways ==
    /\ mode = "gui"
    /\ app.main = "idle"
    /\ app.starts < MaxStarts
    /\ app' = [app EXCEPT !.status = "running", !.press_count = 0,
                          !.engine_thread = "Thread", !.alive = TRUE,
                                  !.starts = @ + 1,
                          !.refused = FALSE, !.main = "start270"]
    /\ stop_event' = FALSE
    /\ pc' = "MixerInit"
    /\ obs' = InitObs
    /\ music_sets' = <<>>
    /\ current_set_name' = NoSet
    /\ current_state' = 1
    /\ key_held' = FALSE
    /\ UNCHANGED <<fs, mode, mixer, channel, on_step>>

\* start_engine without engine_stop_event.clear()
StartEngineKeepsFlag ==
    /\ mode = "gui"
    /\ app.main = "idle"
    /\ IF IsAlive
       THEN /\ app' = [app EXCEPT !.refused = TRUE]
            /\ UNCHANGED <<fs, mode, pc, mixer, music_sets, current_set_name,
                           current_state, channel, key_held, on_step,
                           stop_event, obs>>
       ELSE /\ app.starts < MaxStarts
            /\ app' = [app EXCEPT !.status = "running", !.press_count = 0,
                                  !.engine_thread = "Thread", !.alive = TRUE,
                                  !.starts = @ + 1,
                                  !.refused = FALSE, !.main = "start270"]
            /\ pc' = "MixerInit"
            /\ obs' = InitObs
            /\ music_sets' = <<>>
            /\ current_set_name' = NoSet
            /\ current_state' = 1
            /\ key_held' = FALSE
            /\ UNCHANGED <<fs, mode, mixer, channel, on_step, stop_event>>

\* MusicApp.start_engine (the Start button), lines 253-268: up to
\* engine_thread.start(). The handlers run one at a time on the Tk main
\* thread; the engine thread runs while the handler goes on
StartEngine ==
    /\ mode = "gui"
    /\ app.main = "idle"
    /\ IF IsAlive
       THEN /\ app' = [app EXCEPT !.refused = TRUE]
            /\ UNCHANGED <<fs, mode, pc, mixer, music_sets, current_set_name,
                           current_state, channel, key_held, on_step,
                           stop_event, obs>>
       ELSE /\ app.starts < MaxStarts
            /\ app' = [app EXCEPT !.status = "running", !.press_count = 0,
                                  !.engine_thread = "Thread", !.alive = TRUE,
                                  !.starts = @ + 1,
                                  !.refused = FALSE, !.main = "start270"]
            /\ stop_event' = FALSE
            /\ pc' = "MixerInit"
            /\ obs' = InitObs
            \* the new call of run_engine has locals of its own
            /\ music_sets' = <<>>
            /\ current_set_name' = NoSet
            /\ current_state' = 1
            /\ key_held' = FALSE
            /\ UNCHANGED <<fs, mode, mixer, channel, on_step>>

\* start_engine, line 270: self.circle_running = True
StartEngineDone ==
    /\ mode = "gui"
    /\ app.main = "start270"
    /\ app' = [app EXCEPT !.circle_running = TRUE, !.main = "idle"]
    /\ UNCHANGED <<fs, mode, pc, mixer, music_sets, current_set_name,
                   current_state, channel, key_held, on_step, stop_event, obs>>

\* MusicApp.stop_engine (the Stop button), line 273: the is_alive() test
StopEngine ==
    /\ mode = "gui"
    /\ app.main = "idle"
    /\ app' = [app EXCEPT !.main = IF IsAlive THEN "stop274" ELSE "stop276"]
    /\ UNCHANGED <<fs, mode, pc, mixer, music_sets, current_set_name,
                   current_state, channel, key_held, on_step, stop_event, obs>>

\* stop_engine, line 274: self.engine_stop_event.set()
StopEngineSet ==
    /\ mode = "gui"
    /\ app.main = "stop274"
    /\ stop_event' = TRUE
    /\ app' = [app EXCEPT !.main = "stop276"]
    /\ UNCHANGED <<fs, mode, pc, mixer, music_sets, current_set_name,
                   current_state, channel, key_held, on_step, obs>>

\* stop_engine, line 276: self.circle_running = False
StopEngineCircle ==
    /\ mode = "gui"
    /\ app.main = "stop276"
    /\ app' = [app EXCEPT !.circle_running = FALSE, !.main = "stop277"]
    /\ UNCHANGED <<fs, mode, pc, mixer, music_sets, current_set_name,
                   current_state, channel, key_held, on_step, stop_event, obs>>

\* stop_engine, line 277: the status label reads "Status: stopped"
StopEngineStatus ==
    /\ mode = "gui"
    /\ app.main = "stop277"
    /\ app' = [app EXCEPT !.status = "stopped", !.main = "idle"]
    /\ UNCHANGED <<fs, mode, pc, mixer, music_sets, current_set_name,
                   current_state, channel, key_held, on_step, stop_event, obs>>

\* app.py line 287, seen from the main thread: between two handlers its
\* event loop serves the call the engine thread waits for
AfterServed ==
    /\ mode = "gui"
    /\ app.main = "idle"
    /\ app.after = "waiting"
    /\ app' = [app EXCEPT !.after = "served"]
    /\ UNCHANGED <<fs, mode, pc, mixer, music_sets, current_set_name,
                   current_state, channel, key_held, on_step, stop_event, obs>>

\* a handler that was entered runs to its end
MainRun == StartEngineDone \/ StopEngineSet \/ StopEngineCircle \/ StopEngineStatus

\* the Tk main thread: the clicks, the two handlers, the calls handed to it
MainStep == StartEngine \/ StopEngine \/ MainRun \/ AfterServed

\* ------------------------------------------------------------ sets folders
Dir(files) == [isDir |-> TRUE, files |-> files]
PlainFile == [isDir |-> FALSE, files |-> {}]
GoodDir == Dir({File(1, "wav", TRUE), File(2, "OGG", TRUE), File(3, "wav", TRUE)})
\* four audio files, the first of them corrupt
BadFirstDir == Dir({File(1, "wav", FALSE), File(2, "wav", TRUE),
                    File(3, "wav", TRUE), File(4, "wav", TRUE)})
Root(entries) == [rootIsDir |-> TRUE, entries |-> entries]

\* the sets folders the program is run on
FsSmall ==
    { [rootIsDir |-> FALSE, entries |-> <<>>],
      Root(<<>>),
      Root([d \in {"A"} |-> GoodDir]),
      Root([d \in {"A", "B"} |-> GoodDir]),
      Root([d \in {"A", "B", "C"} |-> GoodDir]),
      Root([d \in {"A", "B", "C"} |->
              IF d = "A" THEN GoodDir ELSE IF d = "B" THEN BadFirstDir ELSE PlainFile]) }

\* every folder of at most MaxFiles files
FileOptions ==
    {o \in [present : BOOLEAN, ext : Exts, ok : BOOLEAN] :
        /\ ~o.present => (o.ext = "txt" /\ ~o.ok)
        /\ o.ext = "txt" => ~o.ok}

FilesOf(choice) ==
    {File(n, choice[n].ext, choice[n].ok) : n \in {k \in DOMAIN choice : choice[k].present}}

AllDirs == {Dir(FilesOf(c)) : c \in [1..MaxFiles -> FileOptions]}

FsWide ==
    {Root([d \in {"A"} |-> e]) : e \in AllDirs \cup {PlainFile}}
    \cup {Root([d \in {"A", "B"} |-> IF d = "A" THEN e ELSE GoodDir]) : e \in AllDirs}

\* ---------------------------------------------------------- specifications
InitEngine ==
    /\ pc = "NotStarted"
    /\ mixer = FALSE
    /\ music_sets = <<>>
    /\ current_set_name = NoSet
    /\ current_state = 1
    /\ channel = IdleChannel
    /\ key_held = FALSE
    /\ stop_event = FALSE
    /\ app = InitApp
    /\ obs = InitObs

Init ==
    /\ fs \in FsSmall
    /\ mode \in {"standalone", "gui"}
    /\ on_step = (IF mode = "gui" THEN "host" ELSE "None")
    /\ InitEngine

Next == MainStart \/ EngineStep \/ AfterFails \/ Interrupt \/ MainStep

Spec == Init /\ [][Next]_vars

\* the host alone: MusicApp over a sets folder that is missing, holds one set
\* or holds two
FsHost ==
    { [rootIsDir |-> FALSE, entries |-> <<>>],
      Root([d \in {"A"} |-> GoodDir]),
      Root([d \in {"A", "B"} |-> GoodDir]) }

InitHost ==
    /\ fs \in FsHost
    /\ mode = "gui"
    /\ on_step = "host"
    /\ InitEngine

NextHost == EngineStep \/ AfterFails \/ MainStep

\* the engine thread and the main thread are threads of the interpreter:
\* they keep being scheduled; the event loop of Tk serves what is queued in
\* the order it was queued, so a call handed to it is served however many
\* clicks follow
FairSpec ==
    /\ InitHost /\ [][NextHost]_vars
    /\ WF_vars(EngineStep) /\ WF_vars(MainRun) /\ SF_vars(AfterServed)

\* run_engine called on the main thread of another program, with a
\* callback of that program, which may raise anything
CallStart ==
    /\ mode = "call"
    /\ pc = "NotStarted"
    /\ pc' = "MixerInit"
    /\ UNCHANGED <<fs, mixer, mode, music_sets, current_set_name, current_state,
                   channel, key_held, on_step, stop_event, app, obs>>

InitCallback ==
    /\ fs \in FsSmall
    /\ mode = "call"
    /\ on_step = "any"
    /\ InitEngine

NextCallback == CallStart \/ RunEngineStep \/ Interrupt

CallbackSpec == InitCallback /\ [][NextCallback]_vars

InitLoad ==
    /\ fs \in FsWide
    /\ mode = "standalone"
    /\ on_step = "None"
    /\ InitEngine

NextLoad == MainStart \/ MixerInit \/ LoadStep

LoadSpec == InitLoad /\ [][NextLoad]_vars

\* the closures called in any order on a loaded library
InitUnit ==
    /\ fs \in FsSmall
    /\ mode = "unit"
    /\ on_step \in {"None", "any"}
    /\ pc = "Unit"
    /\ mixer = TRUE
    /\ music_sets = (IF fs.rootIsDir THEN LoadSets(fs) ELSE <<>>)
    /\ current_set_name = NoSet
    /\ current_state = 1
    /\ channel = IdleChannel
    /\ key_held = FALSE
    /\ stop_event = FALSE
    /\ app = InitApp
    /\ obs = InitObs

UnitStartSet ==
    /\ pc = "Unit"
    /\ obs.nOps < MaxOps
    /\ \E name \in DOMAIN music_sets : StartSetStep(name, "Unit")

UnitPoll ==
    /\ pc = "Unit"
    /\ obs.nOps < MaxOps
    /\ PollStep("Unit")

UnitShutdown ==
    /\ pc = "Unit"
    /\ obs.nOps < MaxOps
    /\ ShutdownStep("UnitSleep", "Unit")

UnitShutdownWake ==
    /\ pc = "UnitSleep"
    /\ ShutdownWake("Unit")

NextUnit == UnitStartSet \/ UnitPoll \/ UnitShutdown \/ UnitShutdownWake

UnitSpec == InitUnit /\ [][NextUnit]_vars

\* ================================================================== claims
\* C1: an advance_state call made with an active set takes state 1 to state 2
\* and state 2 to state 3 of the same set, and state 3 to state 1; from state
\* 3 the new set differs from the old one whenever the library holds more
\* than one set, whatever random.choice draws.
C1_AdvanceTransitions ==
    [][ (obs'.nAdvance = obs.nAdvance + 1 /\ current_set_name # NoSet) =>
          /\ current_state = 1 =>
               (current_state' = 2 /\ current_set_name' = current_set_name)
          /\ current_state = 2 =>
               (current_state' = 3 /\ current_set_name' = current_set_name)
          /\ current_state = 3 =>
               /\ current_state' = 1
               /\ current_set_name' \in DOMAIN music_sets
               /\ Cardinality(DOMAIN music_sets) > 1 =>
                    current_set_name' # current_set_name ]_vars

\* an advance from state 3 has switched sets in a library of three
C1_Witness ==
    /\ Cardinality(DOMAIN music_sets) = 3
    /\ obs.op = "advance"
    /\ obs.before[2] = 3
    /\ current_state = 1
    /\ current_set_name # obs.before[1]

\* C2: with a callback given, on_step has been invoked as many times as
\* advance_state calls changed (set, state): once by each call made with a
\* set active (each of them changes the state), never by a call made while no
\* set is active; without a callback nothing is invoked.
C2_OnStepPerAdvance ==
    /\ on_step # "None" =>
         /\ obs.nOnStep = obs.nChanged
         /\ obs.op = "advance" =>
              /\ Count(obs.ev, "on_step") =
                   (IF obs.before # <<current_set_name, current_state>> THEN 1 ELSE 0)
              /\ obs.before[1] = NoSet => Count(obs.ev, "on_step") = 0
              /\ obs.before[1] # NoSet => Count(obs.ev, "on_step") = 1
    /\ on_step = "None" => obs.nOnStep = 0

\* advance_state was called before any set was started, and after
C2_Witness ==
    /\ on_step = "any"
    /\ obs.nAdvance > obs.nChanged
    /\ obs.nChanged >= 2
    /\ obs.op = "advance"

\* C3: a key sample calls advance_state exactly when it is "pressed" and the
\* sample before it (if any, since the loop started) was not: once per run of
\* consecutive pressed samples, never on a later sample of the same hold,
\* never on a released sample; the calls made, those a KeyboardInterrupt
\* ended included, are as many as the rising edges.
C3_RisingEdge ==
    /\ obs.sample # "none" =>
         (obs.triggered <=> (obs.sample = "pressed" /\ obs.prevSample # "pressed"))
    /\ obs.nAdvance + obs.nCut = obs.nRises

\* the key was held over two samples, in its second press or a later one
C3_Witness ==
    /\ obs.sample = "pressed"
    /\ obs.prevSample = "pressed"
    /\ ~obs.triggered
    /\ obs.nRises >= 2
    /\ obs.nAdvance >= 2

\* C4: once the engine is Running and stop_event is set, the engine thread
\* (given that it keeps running) leaves the loop, fades the playing track out
\* in the finally block, waits for the fade, and reaches Stopped with the
\* channel silent, whatever the key samples are.
C4_StopLeadsToStopped ==
    (Running /\ stop_event) ~>
        (Stopped /\ obs.op = "shutdown" /\ obs.sdFades = 1 /\ ~channel.busy)

\* a run the Stop button ended after at least one advance
C4_Witness ==
    /\ mode = "gui"
    /\ stop_event
    /\ Stopped
    /\ obs.entered
    /\ obs.nAdvance >= 1
    /\ obs.op = "shutdown"
    /\ obs.sdFades = 1

\* C5: when the sets folder is no directory or no set is accepted, the run
\* ends Stopped without having been Running, having started a set or played,
\* or having invoked on_step, and its caller is given the failure
\* (RootNotFound / NoSetsFound).
C5_StartupFailureSurfaced ==
    obs.diag # "none" =>
        /\ Stopped
        /\ ~obs.entered
        /\ obs.trace = <<>>
        /\ obs.op = "none"
        /\ obs.nOnStep = 0
        /\ obs.outcome \in {"RootNotFound", "NoSetsFound"}

\* the channel calls among the events of a closure
Commands(ev) ==
    LET IsCommand(e) == e.kind \in {"fadeout", "play", "sleep"}
    IN SelectSeq(ev, IsCommand)

\* C6: a start_set or advance_state that reached play_loop_sound issued, on
\* a channel that was not playing, the looping fade-in play of the new track
\* and nothing else; on a channel that was playing, the fadeout of the
\* channel (the prior track) and then the looping fade-in play.
C6_Crossfade ==
    (obs.op \in {"start_set", "advance"} /\ Count(obs.ev, "play") > 0) =>
        LET play == Ev("play", current_set_name,
                       music_sets[current_set_name][current_state], CROSSFADE_MS)
            fade == Ev("fadeout", current_set_name, obs.soundBefore, CROSSFADE_MS)
        IN /\ ~obs.busyBefore => Commands(obs.ev) = <<play>>
           /\ obs.busyBefore => Commands(obs.ev) = <<fade, play>>
           /\ channel.busy
           /\ channel.sound = play.sound
           /\ channel.loops = -1
           /\ channel.fade_in = CROSSFADE_MS

\* the second run of the engine started on a silent channel and has since
\* crossfaded from one track to another
C6_Witness ==
    /\ app.starts = 2
    /\ obs.op = "advance"
    /\ obs.busyBefore
    /\ Len(obs.trace) = 2
    /\ Commands(obs.ev)[1].kind = "fadeout"

\* C7: shutdown steps that follow each other with no play between them issue
\* at most one fadeout in all; a shutdown step on a channel that is not
\* playing issues no fadeout and does not sleep; the channel is silent after
\* every shutdown step, so that a second one finds nothing to do.
C7_ShutdownIdempotent ==
    obs.op = "shutdown" =>
        /\ obs.sdFades <= 1
        /\ ~obs.busyBefore =>
             (Commands(obs.ev) = <<>> /\ obs.sdSlept = 0)
        /\ obs.busyBefore =>
             (Count(obs.ev, "fadeout") = 1 /\ obs.sdSlept = SHUTDOWN_SLEEP_MS)
        /\ obs.sdRuns >= 2 => ~obs.busyBefore
        /\ ~channel.busy

\* the shutdown step ran twice in a row after a track was playing
C7_Witness ==
    /\ obs.op = "shutdown"
    /\ obs.sdRuns = 2
    /\ obs.sdFades = 1
    /\ ~obs.busyBefore

\* C8: in a run whose library holds exactly one set, after any number of
\* advance_state calls the active set is that set and the states visited are
\* 1, 2, 3, 1, 2, 3, ...: every call that returns, the one from state 3
\* included, makes the next transition.
C8_SingleSetCycle ==
    (Cardinality(DOMAIN music_sets) = 1 /\ obs.entered) =>
        LET only == CHOOSE n \in DOMAIN music_sets : TRUE
        IN /\ Len(obs.trace) = obs.nAdvance + 1
           /\ \A i \in 1..Len(obs.trace) : obs.trace[i] = <<only, ((i - 1) % 3) + 1>>
           /\ current_set_name = only
           /\ ~obs.cut => current_state = (obs.nAdvance % 3) + 1

\* the single set has been gone through twice
C8_Witness ==
    /\ Cardinality(DOMAIN music_sets) = 1
    /\ obs.entered
    /\ obs.nAdvance = 7
    /\ current_state = 2

\* the run of the end-to-end scenario: library {A, B}, a callback given, the
\* first set A, and B drawn on leaving A
Scenario ==
    /\ DOMAIN music_sets = {"A", "B"}
    /\ on_step # "None"
    /\ obs.entered
    /\ obs.trace[1] = <<"A", 1>>
    /\ Len(obs.trace) >= 4 => obs.trace[4][1] = "B"

ScenarioTrace == << <<"A", 1>>, <<"A", 2>>, <<"A", 3>>, <<"B", 1>>, <<"B", 2>> >>

\* C9 as claimed: after the 4 presses of the scenario the trace is
\* (A,1) (A,2) (A,3) (B,1) (B,2), on_step was invoked 4 times and the
\* "Switched to set" line was printed once in the run.
C9_ScenarioOneSwitchLine ==
    (Scenario /\ obs.nAdvance = 4) =>
        /\ obs.trace = ScenarioTrace
        /\ obs.nOnStep = 4
        /\ obs.nSwitched = 1

\* C9 amended: in the scenario, after k <= 4 presses the trace is the first
\* k + 1 elements of (A,1) (A,2) (A,3) (B,1) (B,2) and on_step was invoked k
\* times; the "Switched to set" line is printed twice in the run, by the
\* initial start_set and by the 3rd press, and the "picking new set" line
\* once, by the 3rd press.
C9_ScenarioTwoSwitchLines ==
    (Scenario /\ obs.nAdvance <= 4) =>
        LET k == obs.nAdvance
        IN /\ obs.trace = SubSeq(ScenarioTrace, 1, k + 1)
           /\ obs.nOnStep = k
           /\ obs.nSwitched = (IF k >= 3 THEN 2 ELSE 1)
           /\ obs.nPicked = (IF k >= 3 THEN 1 ELSE 0)
           /\ obs.op = "start_set" => (k = 0 /\ Count(obs.ev, "print_switched") = 1)
           /\ obs.op = "advance" =>
                Count(obs.ev, "print_switched") = (IF k = 3 THEN 1 ELSE 0)

\* the 4th press of the scenario has been handled
C9_Witness ==
    /\ Scenario
    /\ obs.nAdvance = 4
    /\ current_set_name = "B"
    /\ current_state = 2

\* the set loading is over
Loaded == pc \in {"Start", "Stopped"}

\* the audio files of a folder that load
ValidFiles(entry) == {f \in entry.files : IsAudio(f) /\ f.ok}

\* the audio files of a folder with fewer than three audio files before them
LowestThree(entry) ==
    LET audio == {f \in entry.files : IsAudio(f)}
    IN {f \in audio : Cardinality({g \in audio : g.name < f.name}) < 3}

\* the tracks of set d are three files of the folder in ascending name order
ThreeInOrder(d) ==
    /\ Len(music_sets[d]) = 3
    /\ \A i \in 1..3 : music_sets[d][i][1] = d
    /\ \A i, j \in 1..3 : i < j => music_sets[d][i][2] < music_sets[d][j][2]

\* C10 as claimed: a folder with at least 3 valid audio files gives a set of
\* exactly 3 tracks in filename order, a folder with fewer gives no set.
C10_ThreeValidFiles ==
    Loaded =>
        \A d \in DOMAIN fs.entries :
            LET entry == fs.entries[d]
            IN entry.isDir =>
                 /\ Cardinality(ValidFiles(entry)) >= 3 =>
                      (d \in DOMAIN music_sets /\ ThreeInOrder(d))
                 /\ Cardinality(ValidFiles(entry)) < 3 => d \notin DOMAIN music_sets

\* C10 amended: a folder gives a set exactly when its first three audio files
\* in filename order exist and all load; the set then has exactly these 3
\* tracks in filename order. A folder with fewer than 3 valid files gives no
\* set, and so does a folder with 3 or more valid files if one of its first
\* three audio files fails to load.
C10_FirstThreeFiles ==
    Loaded =>
        /\ DOMAIN music_sets \subseteq DOMAIN fs.entries
        /\ \A d \in DOMAIN fs.entries :
             LET entry == fs.entries[d]
                 first == LowestThree(entry)
             IN /\ d \in DOMAIN music_sets <=>
                     (entry.isDir /\ Cardinality(first) = 3 /\ \A f \in first : f.ok)
                /\ d \in DOMAIN music_sets =>
                     /\ ThreeInOrder(d)
                     /\ {music_sets[d][i] : i \in 1..3} = {Sound(d, f) : f \in first}
                /\ Cardinality(ValidFiles(entry)) < 3 => d \notin DOMAIN music_sets

\* a folder of four audio files whose first three load became a set, next to
\* a file that is no audio file
C10_Witness ==
    /\ Loaded
    /\ "A" \in DOMAIN music_sets
    /\ Cardinality({f \in fs.entries["A"].files : IsAudio(f)}) = 3
    /\ Cardinality(fs.entries["A"].files) = 4
    /\ \E f \in fs.entries["A"].files : f.name = 2 /\ ~IsAudio(f)

\* what C11 says of every advance_state call whose on_step raises an error
\* (an exception of a class derived from Exception), and of the rising edges
\* after it, in a pass of the loop that no Ctrl+C ends
CallbackRaiseCaught ==
    /\ (obs'.nRaised = obs.nRaised + 1 /\ ~obs'.ctrlc
          /\ obs'.thrown \in {"Exception"} \cup Unprintable) =>
         /\ obs'.escaped = "none"
         /\ pc' = "Check"
         /\ key_held'
         /\ Count(obs'.ev, "print_callback_error") = 1
         /\ obs'.nOnStep = obs.nOnStep + 1
         /\ current_state' = (current_state % 3) + 1
         /\ current_state < 3 => current_set_name' = current_set_name
         /\ current_set_name' \in DrawPool(music_sets, current_set_name)
                                   \cup {current_set_name}
         /\ channel' = Play(channel, music_sets[current_set_name'][current_state'],
                            -1, CROSSFADE_MS)
    /\ (obs.nRaised > 0 /\ obs'.nRises = obs.nRises + 1 /\ ~obs'.ctrlc
          /\ obs'.thrown \in {"none", "Exception"} \cup Unprintable) =>
         /\ obs'.nAdvance = obs.nAdvance + 1
         /\ obs'.nChanged = obs.nChanged + 1
         /\ pc' = "Check"

\* C11: an advance_state call whose on_step raises an error catches it,
\* whatever error it is: the exception does not leave the call, the
\* loop goes on to its next stop check with the latch set, and state, set
\* and channel are those of the same call with a callback that returns;
\* after a callback has raised, every rising edge still makes a transition.
C11_AnyRaiseCaught == [][CallbackRaiseCaught]_vars

\* C12: once run_engine has returned, after a cancellation, an interrupt or
\* a failed load, the mixer it initialised is no longer initialised.
C12_MixerReleasedAtStop == Stopped => ~mixer

\* C13: in the host, the status reads "running" only while the engine thread
\* is alive and not in its finally block, and reads "stopped" or "idle" only
\* while no engine is in its main loop.
C13_StatusReflectsEngine ==
    mode = "gui" =>
      /\ app.status = "running" => (IsAlive /\ ~Stopping)
      /\ app.status \in {"stopped", "idle"} => ~Running

\* C14: the loop checks stop_event before it samples the key: an iteration
\* that finds it set leaves the loop for the finally block with no key
\* sample, no advance_state and no on_step; so after the host has set it, at
\* most one more key sample and one more advance_state are made, those of
\* the iteration already past its check.
C14_StopCheckedBeforeSample ==
    [][ /\ (pc = "Check" /\ mode = "gui" /\ stop_event /\ pc' # pc) =>
             /\ pc' = "Finally"
             /\ obs' = obs
             /\ UNCHANGED <<current_set_name, current_state, channel, key_held, app>>
        /\ obs'.polledAfterStop <= 1
        /\ obs'.nAfterStop <= 1 ]_vars

\* an iteration past its check advanced after the host had set stop_event,
\* and the engine then stopped
C14_Witness ==
    /\ mode = "gui"
    /\ Stopped
    /\ obs.nAfterStop = 1
    /\ obs.nAdvance >= 2

\* C15: in every reachable state of a run current_state is 1, 2 or 3, and no
\* call has taken the else-branch of advance_state (reset to state 1) or
\* the "Invalid state" branch of play_current_state.
C15_StateInRange ==
    /\ current_state \in 1..3
    /\ Count(obs.ev, "else_reset") = 0
    /\ Count(obs.ev, "print_invalid") = 0
    /\ \A i \in 1..Len(obs.trace) : obs.trace[i][2] \in 1..3

\* the run has gone through state 3 twice and is back in state 1
C15_Witness ==
    /\ obs.op = "advance"
    /\ obs.before[2] = 3
    /\ current_state = 1
    /\ obs.nAdvance >= 6
    /\ Count(obs.ev, "print_playing") = 1

\* C16: current_set_name is None until the first start_set assigns it;
\* from then on (its "Switched to set" line, the main loop) it is a key of
\* music_sets; and no advance_state call of the main loop finds it None, so
\* every call that returns has made a transition.
C16_SetNameNoneOnlyBeforeStart ==
    /\ obs.op = "none" => current_set_name = NoSet
    /\ current_set_name = NoSet => (obs.nSwitched = 0 /\ ~obs.entered)
    /\ (current_set_name # NoSet /\ obs.nSwitched = 0) => obs.op = "start_set_cut"
    /\ current_set_name # NoSet => current_set_name \in DOMAIN music_sets
    /\ (Running \/ Stopping) => current_set_name \in DOMAIN music_sets
    /\ obs.op \in {"advance", "advance_cut"} => obs.before[1] # NoSet
    /\ obs.nChanged = obs.nAdvance

\* the second engine of a host has started a set, advanced through it and
\* drawn the next one
C16_Witness ==
    /\ app.starts = 2
    /\ obs.op = "advance"
    /\ obs.before[1] \in DOMAIN music_sets
    /\ obs.before[2] = 3
    /\ obs.nSwitched = 2
    /\ current_set_name \in DOMAIN music_sets

\* the play calls among the events of a closure
Plays(ev) ==
    LET IsPlay(e) == e.kind = "play"
    IN SelectSeq(ev, IsPlay)

\* C17: after a start_set or an advance_state the call has issued one play,
\* of track number current_state of the set that is now current, issued
\* with that set current; the channel holds that track and no other, looping,
\* with no fadeout pending.
C17_ChannelPlaysCurrentTrack ==
    obs.op \in {"start_set", "advance"} =>
        LET plays == Plays(obs.ev)
            track == music_sets[current_set_name][current_state]
        IN /\ current_set_name \in DOMAIN music_sets
           /\ Len(plays) = 1
           /\ plays[1].sound = track
           /\ plays[1].set = current_set_name
           /\ track[1] = current_set_name
           /\ \A name \in DOMAIN music_sets \ {current_set_name} :
                \A i \in 1..Len(music_sets[name]) : plays[1].sound # music_sets[name][i]
           /\ channel = Play(channel, track, -1, CROSSFADE_MS)

\* an advance from state 3 moved a playing channel to the first track of
\* another set
C17_Witness ==
    /\ obs.op = "advance"
    /\ obs.before[2] = 3
    /\ obs.before[1] # current_set_name
    /\ obs.busyBefore
    /\ obs.soundBefore = music_sets[obs.before[1]][3]
    /\ channel.sound = music_sets[current_set_name][1]

\* the position of the first event of one of the kinds, 0 if there is none
IndexOf(ev, kinds) ==
    IF \A i \in 1..Len(ev) : ev[i].kind \notin kinds THEN 0
    ELSE CHOOSE i \in 1..Len(ev) :
           /\ ev[i].kind \in kinds
           /\ \A j \in 1..(i - 1) : ev[j].kind \notin kinds

\* C18: an advance_state call with a callback first assigns state and set
\* (the line it prints right after says so), then issues the play, then
\* calls on_step, once; on_step finds the state, set and track the call ends
\* with; and whenever the loop is at its stop check or its key sample every
\* advance_state call made so far has had its on_step call.
C18_MutatePlayNotify ==
    /\ (obs.op = "advance" /\ on_step # "None") =>
         LET assigned == IndexOf(obs.ev, {"print_state2", "print_state3", "print_switched"})
             played == IndexOf(obs.ev, {"play"})
             told == IndexOf(obs.ev, {"on_step"})
         IN /\ 0 < assigned /\ assigned < played /\ played < told
            /\ Count(obs.ev, "play") = 1
            /\ Count(obs.ev, "on_step") = 1
            /\ obs.ev[assigned].n = current_state
            /\ obs.ev[assigned].set = current_set_name
            /\ obs.ev[played].sound = channel.sound
            /\ obs.ev[told].set = current_set_name
            /\ obs.ev[told].n = current_state
            /\ obs.ev[told].sound = channel.sound
            /\ <<obs.ev[told].set, obs.ev[told].n>> # obs.before
            /\ \A i \in (told + 1)..Len(obs.ev) :
                 obs.ev[i].kind \in {"raise", "print_callback_error"}
    /\ (Running /\ on_step # "None") => obs.nOnStep = obs.nAdvance

\* the host's callback was called last in an advance from state 3, after the
\* new set was started
C18_Witness ==
    /\ mode = "gui"
    /\ obs.op = "advance"
    /\ obs.before[2] = 3
    /\ Len(obs.ev) >= 5
    /\ obs.ev[Len(obs.ev)].kind = "on_step"
    /\ obs.ev[Len(obs.ev)].n = 1
    /\ obs.ev[Len(obs.ev) - 1].kind = "play"

\* C19: the loop is left only for the finally block, and only because the
\* host has set stop_event or, standalone, a KeyboardInterrupt arrived; in
\* the loop every rising edge of the key makes a transition, from state 3
\* as from the others, and the engine is still in the loop after it.
C19_NoTerminalState ==
    [][ /\ (Running /\ ~Running') =>
             /\ pc' = "Finally"
             /\ \/ mode = "gui" /\ stop_event
                \/ mode = "standalone" /\ ~obs.interrupted /\ obs'.interrupted
        /\ (Running /\ obs'.nRises = obs.nRises + 1 /\ ~obs'.interrupted) =>
             /\ Running'
             /\ obs'.nChanged = obs.nChanged + 1
             /\ <<current_set_name', current_state'>> # <<current_set_name, current_state>>
             /\ current_state = 3 => current_state' = 1 ]_vars

\* no stop and no interrupt: the engine is in its loop after six advances,
\* two of them from state 3
C19_Witness ==
    /\ Running
    /\ ~stop_event
    /\ ~obs.interrupted
    /\ obs.op = "advance"
    /\ obs.nAdvance >= 6
    /\ obs.nSwitched = 3

\* C20: in the host, press_count is the number of on_step calls of the
\* engine started last; the call that makes it a multiple of 3 calls
\* self.after for a wallpaper reload, once, no other call and no other step
\* does; a start_engine that starts an engine sets the count to 0.
C20_WallpaperEveryThird ==
    [][ mode = "gui" =>
          /\ app'.press_count = obs'.nOnStep
          /\ obs'.nOnStep = obs.nOnStep + 1 =>
               app'.after_calls = app.after_calls + (IF obs'.nOnStep % 3 = 0 THEN 1 ELSE 0)
          /\ obs'.nOnStep # obs.nOnStep + 1 => app'.after_calls = app.after_calls
          /\ app'.starts = app.starts + 1 =>
               (app'.press_count = 0 /\ app'.engine_thread = "Thread") ]_vars

\* the second engine of the host has had its sixth press; the first one had
\* at least three
C20_Witness ==
    /\ app.starts = 2
    /\ app.press_count = 6
    /\ obs.nOnStep = 6
    /\ app.after_calls >= 3

\* C21: in the host at most one engine thread is alive: the threads started
\* less the threads ended are one while a thread is alive and none otherwise;
\* a start_engine click made while a thread is alive starts no thread,
\* leaves stop_event and press_count as they are and changes nothing else of
\* the host or the engine.
C21_OneEngineThread ==
    [][ mode = "gui" =>
          /\ app'.starts - app'.ended = (IF IsAlive' THEN 1 ELSE 0)
          /\ (app'.refused /\ ~app.refused) =>
               /\ IsAlive /\ IsAlive'
               /\ app' = [app EXCEPT !.refused = TRUE]
               /\ UNCHANGED <<pc, stop_event, obs, music_sets, current_set_name,
                              current_state, channel, key_held, mixer>>
          /\ IsAlive =>
               /\ app'.starts = app.starts
               /\ app'.engine_thread = app.engine_thread
               /\ app'.press_count >= app.press_count
               /\ stop_event => stop_event'
               /\ pc' = "MixerInit" => pc = "MixerInit" ]_vars

\* Start was clicked when run_engine, stopped with presses counted, had
\* returned and its thread had not ended yet
C21_Witness ==
    /\ mode = "gui"
    /\ app.refused
    /\ IsAlive
    /\ Stopped
    /\ stop_event
    /\ app.press_count >= 1
    /\ app.starts = 1

\* C22: in the host, stop_event, once set while a thread is alive, stays set
\* as long as that thread is alive, and the thread (given that it keeps
\* running) ends; only line 274 of stop_engine sets it, and stop_engine gets
\* there exactly when it finds a thread alive; a thread is started
\* with stop_event clear, and an engine leaves its loop only with stop_event
\* set by a stop_engine made after its start: that handler is past line 274
\* or has written the status "stopped".
C22_StopNeitherLostNorStale ==
    /\ [][ mode = "gui" =>
             /\ (IsAlive /\ stop_event) => (IsAlive' => stop_event')
             /\ (stop_event' /\ ~stop_event) =>
                  (app.main = "stop274" /\ app'.main = "stop276" /\ pc' = pc)
             /\ (app.main = "idle" /\ app'.main \in {"stop274", "stop276"}) =>
                  (IsAlive <=> app'.main = "stop274")
             /\ app'.starts = app.starts + 1 =>
                  (~IsAlive /\ IsAlive' /\ ~stop_event' /\ app'.status = "running")
             /\ (Running /\ ~Running') =>
                  /\ stop_event
                  /\ pc' = "Finally"
                  /\ app.main \in {"stop276", "stop277"} \/ app.status = "stopped" ]_vars
    /\ ((mode = "gui" /\ IsAlive /\ stop_event) ~> ~IsAlive)

\* the host's second engine, started after the first was stopped, advanced
\* and was stopped by a Stop of its own
C22_Witness ==
    /\ mode = "gui"
    /\ app.starts = 2
    /\ app.ended = 2
    /\ stop_event
    /\ obs.entered
    /\ obs.nAdvance >= 2
    /\ obs.nAfterStop = 0
    /\ obs.outcome = "returned"

====
